---- MODULE Spec2Model ----
(***************************************************************************)
(* State-machine model of notebook/nvcf_async.py: one invocation of        *)
(* api_call_async (asset upload, request formation, submission, polling    *)
(* with exponential backoff, response decoding), or one direct call of     *)
(* _poll_response_async with caller-chosen backoff parameters.             *)
(*                                                                         *)
(* Strings that the code builds are sequences of tokens, delays are        *)
(* integers in milliseconds, and the network is the environment: every     *)
(* request draws its outcome from a small set.                             *)
(***************************************************************************)
EXTENDS Integers, Sequences, FiniteSets, TLC

VARIABLES
    entry,          \* which function was called: "api_call_async" or "_poll_response_async"
    pc,             \* position in the code
    session,        \* aiohttp.ClientSession of api_call_async: "unopened", "open", "closed"
    params,         \* api_call_async(params): sequence of <<key, value>> pairs
    filepaths,      \* api_call_async(filepaths)
    idx,            \* position of the for loop over filepaths (1-based)
    asset_id,       \* _prepare_local_asset_async: result_json["assetId"] of the current file
    asset_names,    \* api_call_async: identifiers collected so far
    request,        \* (body, headers) built by _format_request
    response,       \* the response object the code holds
    initial_delay,  \* _poll_response_async parameters
    max_attempts,
    max_backoff,
    attempt,        \* _poll_response_async locals
    delay,
    outcome,        \* how the called function ended: nothing yet, a return value or an exception
    events,         \* history: network requests, observed responses and sleeps, in order
    uploaded,       \* history: assetIds whose upload PUT returned 200
    readlog         \* history: outcome of the last read of a response body from the network

vars == <<entry, pc, session, params, filepaths, idx, asset_id, asset_names, request,
          response, initial_delay, max_attempts, max_backoff, attempt, delay,
          outcome, events, uploaded, readlog>>

(***************************************************************************)
(* Bounds of the model                                                     *)
(***************************************************************************)
MaxFiles == 2            \* longest filepaths list
MaxAttemptsBound == 3    \* largest max_attempts of a direct _poll_response_async call
MaxInitialDelay == 2     \* largest initial_delay of a direct call (ms)
MaxBackoffBound == 5     \* largest max_backoff of a direct call (ms)
MaxZipEntries == 3       \* longest archive of a direct _unpack_zip_response_async call

(***************************************************************************)
(* Program constants: the defaults of _poll_response_async, which          *)
(* api_call_async uses (delays in milliseconds: 0.001 s and 32.0 s)        *)
(***************************************************************************)
DefaultInitialDelay == 1
DefaultMaxAttempts == 10
DefaultMaxBackoff == 32000

None == [tag |-> "None"]

\* A Python str held where the code can also hold None or a decoded payload.
Str(s) == [tag |-> "str", val |-> s]

Min(a, b) == IF a <= b THEN a ELSE b

RECURSIVE Pow2(_)
Pow2(n) == IF n <= 0 THEN 1 ELSE 2 * Pow2(n - 1)

(***************************************************************************)
(* The file system and the inputs                                          *)
(***************************************************************************)
Paths == {"", "missing.png", "a.png", "b.png"}

\* os.path.exists
path_exists(filepath) == filepath \in {"a.png", "b.png"}

Token == "tok"

ParamChoices == {<< >>, << <<"seed", "1">> >>}

RECURSIVE SeqsUpTo(_, _)
SeqsUpTo(S, n) ==
    IF n = 0 THEN {<< >>}
    ELSE LET shorter == SeqsUpTo(S, n - 1)
         IN  shorter \cup {Append(s, x) : s \in {t \in shorter : Len(t) = n - 1}, x \in S}

(***************************************************************************)
(* Responses of the service                                                *)
(***************************************************************************)
AssetIds == {Str("asset-1"), Str("asset-2")}

\* Raw body texts and what json.loads makes of them.
JSONDecodeError == [tag |-> "JSONDecodeError"]

json_loads(text) ==
    CASE text = "{\"reqId\":\"r1\"}" -> [tag |-> "dict", reqId |-> "r1"]
      [] text = "{\"ok\":true}" -> [tag |-> "dict", ok |-> TRUE]
      [] text = "{\"x\":1}" -> [tag |-> "dict", x |-> 1]
      [] text = "{\"status\":\"pending\"}" -> [tag |-> "dict", status |-> "pending"]
      [] OTHER -> JSONDecodeError

\* Zip archive bodies: a sequence of entries, each a name (directory, stem,
\* extension) and its data.
ZipEntry(dir, stem, ext, data) == [dir |-> dir, stem |-> stem, ext |-> ext, data |-> data]

ZipBodies ==
    { << ZipEntry("", "a", ".json", "{\"x\":1}"),
         ZipEntry("", "image", ".png", "png-bytes-1"),
         ZipEntry("", "video", ".mp4", "mp4-bytes-1") >>,
      << ZipEntry("out/", "first", ".png", "png-bytes-1"),
         ZipEntry("out/", "second", ".png", "png-bytes-2"),
         ZipEntry("out/", "notes", ".txt", "text") >> }

\* Entries of the archives handed to _unpack_zip_response_async directly.
ZipEntryChoices ==
    {ZipEntry("", "a", ".json", "{\"x\":1}"),
     ZipEntry("out/", "a", ".json", "{\"ok\":true}"),
     ZipEntry("", "image", ".json", "{\"x\":1}"),
     ZipEntry("", "bad", ".json", "{oops"),
     ZipEntry("", "image", ".png", "png-bytes-1"),
     ZipEntry("out/", "frame", ".png", "png-bytes-2"),
     ZipEntry("", "video", ".mp4", "mp4-bytes-1"),
     ZipEntry("", "notes", ".txt", "text")}

\* A response body: text, a zip archive, or bytes that are neither.
TextBody(text) == [text |-> text]
ZipBody(entries) == [entries |-> entries]
NotAZip == [bytes |-> "not-a-zip"]

IsZip(body) == "entries" \in DOMAIN body

\* response.text()
BodyText(body) == IF "text" \in DOMAIN body THEN body.text ELSE "<binary>"

Response(status, content_type, body) ==
    [status |-> status, content_type |-> content_type, body |-> body, body_read |-> FALSE]

\* What a job-submission POST or a status GET can answer.
Responses ==
    {Response(202, "application/json", TextBody("{\"reqId\":\"r1\"}")),
     Response(202, "application/json", TextBody("{\"status\":\"pending\"}")),
     Response(202, "text/plain", TextBody("Internal Server Error")),
     Response(200, "application/json", TextBody("{\"ok\":true}")),
     Response(200, "application/json", TextBody("{oops")),
     Response(200, "text/plain", TextBody("Internal Server Error")),
     Response(200, "text/plain", TextBody("{\"ok\":true}")),
     Response(200, "application/zip", NotAZip),
     Response(500, "text/plain", TextBody("Internal Server Error")),
     Response(404, "application/json", TextBody("{\"x\":1}"))}
    \cup {Response(200, "application/zip", ZipBody(z)) : z \in ZipBodies}

\* How reading a body that was not read yet can end.
ReadOutcomes == {"ok", "ClientError", "ConnectionTimeoutError"}


(***************************************************************************)
(* Values the code returns or raises                                       *)
(***************************************************************************)
Exc(type) == [kind |-> "exception", type |-> type]

\* aiohttp.ClientError and the subclasses of it that the model raises.
ClientErrors == {"ClientError", "ConnectionTimeoutError", "ContentTypeError"}

\* dataclass Result
Result(response_text, output, status_code) ==
    [kind |-> "Result", response_text |-> response_text, output |-> output,
     status_code |-> status_code]

Returned(value) == [kind |-> "return", value |-> value]

NoOutcome == [kind |-> "running"]

Ev(kind, arg) == [kind |-> kind, arg |-> arg]

(***************************************************************************)
(* Request Builder                                                         *)
(***************************************************************************)
\* sep.join(parts), each part a sequence of tokens
RECURSIVE Join(_, _)
Join(sep, parts) ==
    IF Len(parts) = 0 THEN << >>
    ELSE IF Len(parts) = 1 THEN parts[1]
    ELSE parts[1] \o <<sep>> \o Join(sep, Tail(parts))

_generate_command(api, ps) ==
    <<api, " ">> \o Join(" ", [i \in 1..Len(ps) |-> <<"--", ps[i][1], "=", ps[i][2]>>])

TypeError == [tag |-> "TypeError"]

JoinRaises(names) == \E i \in 1..Len(names) : names[i].tag # "str"

InputEntry(name, data) ==
    [name |-> name, shape |-> <<1>>, datatype |-> "BYTES", data |-> <<data>>]

BaseHeaders(token) ==
    [k \in {"Authorization", "Content-Type", "NVCF-POLL-SECONDS"} |->
        CASE k = "Authorization" -> <<"Bearer ", token>>
          [] k = "Content-Type" -> <<"application/json">>
          [] OTHER -> <<"3600">>]

\* Mutant: the asset-reference header is set for an empty list as well.
_format_request_AlwaysRefs(command, token, names) ==
    IF Len(names) > 0 /\ JoinRaises(names) THEN TypeError
    ELSE [tag |-> "request",
          body |-> [inputs |-> <<InputEntry(<<"command">>, command)>> \o
                       [i \in 1..Len(names) |->
                           InputEntry(<<"image_assetId_", i - 1>>, names[i])]],
          headers |-> ("NVCF-INPUT-ASSET-REFERENCES" :>
                           Join(",", [i \in 1..Len(names) |-> <<names[i].val>>]))
                      @@ BaseHeaders(token)]

\* Returns (requestBody, headers), or TypeError when ",".join meets an
\* identifier that is no string.
_format_request(command, token, names) ==
    IF Len(names) > 0 /\ JoinRaises(names) THEN TypeError
    ELSE [tag |-> "request",
          body |-> [inputs |-> <<InputEntry(<<"command">>, command)>> \o
                       [i \in 1..Len(names) |->
                           InputEntry(<<"image_assetId_", i - 1>>, names[i])]],
          headers |-> IF Len(names) > 0
                      THEN ("NVCF-INPUT-ASSET-REFERENCES" :>
                                Join(",", [i \in 1..Len(names) |-> <<names[i].val>>]))
                           @@ BaseHeaders(token)
                      ELSE BaseHeaders(token)]

(***************************************************************************)
(* Asset Uploader                                                          *)
(***************************************************************************)
\* Mutant: only the empty path is refused.
PathNotFound_OnlyEmpty(filepath) == filepath = ""

\* line 154: the path is empty or does not exist
PathNotFound(filepath) == filepath = "" \/ ~path_exists(filepath)

\* Mutant: the identifier is returned whatever the upload answered.
PrepareResult_AlwaysId(status, id) == id

\* lines 177-181: what _prepare_local_asset_async returns after the upload
PrepareResult(status, id) == IF status # 200 THEN None ELSE id

UploadStatuses == {200, 500}

(***************************************************************************)
(* Response Decoder                                                        *)
(***************************************************************************)
AssertionError == [tag |-> "AssertionError"]
ValueError == [tag |-> "ValueError"]

DecodeErrors == {JSONDecodeError, AssertionError, ValueError}

EmptyDict == [k \in {} |-> None]

\* zip_archive.read(name): the bytes of an entry, kept as they are
Bytes(data) == [tag |-> "bytes", val |-> data]

\* Mutant: a key that is already set is not overwritten.
RECURSIVE UnpackEntries_FirstWins(_, _)
UnpackEntries_FirstWins(entries, output) ==
    IF Len(entries) = 0 THEN output
    ELSE LET e == Head(entries)
         IN  IF e.ext = ".json"
             THEN IF json_loads(e.data) = JSONDecodeError THEN JSONDecodeError
                  ELSE UnpackEntries_FirstWins(Tail(entries),
                                               output @@ (e.stem :> json_loads(e.data)))
             ELSE IF e.ext = ".png"
             THEN UnpackEntries_FirstWins(Tail(entries), output @@ ("image" :> Bytes(e.data)))
             ELSE IF e.ext = ".mp4"
             THEN UnpackEntries_FirstWins(Tail(entries), output @@ ("video" :> Bytes(e.data)))
             ELSE UnpackEntries_FirstWins(Tail(entries), output)

\* The loop of lines 296-302 over the entries still to visit.
RECURSIVE UnpackEntries(_, _)
UnpackEntries(entries, output) ==
    IF Len(entries) = 0 THEN output
    ELSE LET e == Head(entries)
         IN  IF e.ext = ".json"
             THEN IF json_loads(e.data) = JSONDecodeError THEN JSONDecodeError
                  ELSE UnpackEntries(Tail(entries), (e.stem :> json_loads(e.data)) @@ output)
             ELSE IF e.ext = ".png"
             THEN UnpackEntries(Tail(entries), ("image" :> Bytes(e.data)) @@ output)
             ELSE IF e.ext = ".mp4"
             THEN UnpackEntries(Tail(entries), ("video" :> Bytes(e.data)) @@ output)
             ELSE UnpackEntries(Tail(entries), output)

_unpack_zip_response_async(body) ==
    IF ~IsZip(body) THEN AssertionError ELSE UnpackEntries(body.entries, EmptyDict)

\* Mutant: whatever is not a zip is parsed as JSON.
process_response_NoElse(resp) ==
    IF resp.content_type = "application/zip" THEN _unpack_zip_response_async(resp.body)
    ELSE json_loads(BodyText(resp.body))

\* The decoded payload, or the exception raised.
process_response(resp) ==
    IF resp.content_type = "application/json" THEN json_loads(BodyText(resp.body))
    ELSE IF resp.content_type = "application/zip" THEN _unpack_zip_response_async(resp.body)
    ELSE ValueError

\* Whether process_response reads the body at all (lines 257-264).
DecoderReadsBody(resp) == resp.content_type \in {"application/json", "application/zip"}

(***************************************************************************)
(* Submission & Polling Engine: the conditions and the arithmetic          *)
(***************************************************************************)
\* Mutant: the budget test lets one attempt too many through.
LoopCondition_OffByOne(status, att, maxatt) == status = 202 /\ att <= maxatt

\* line 215
LoopCondition(status, att, maxatt) == status = 202 /\ att < maxatt

\* Mutant: sleeps after the last attempt as well.
SleepsAgain_Always(att, maxatt) == att <= maxatt

\* line 227
SleepsAgain(att, maxatt) == att < maxatt

\* Mutant: the doubled delay is not capped.
BackoffDelay_Uncapped(d, maxb) == d * 2

\* line 228
BackoffDelay(d, maxb) == Min(d * 2, maxb)

\* Mutant: the budget counts as spent one attempt early.
AttemptsExhausted_Early(att, maxatt) == att + 1 >= maxatt

\* line 236
AttemptsExhausted(att, maxatt) == att >= maxatt

(***************************************************************************)
(* Orchestrator: the three Result shapes                                   *)
(***************************************************************************)
\* Mutant: the body of a failed job is decoded all the same.
JobFailureResult_Decoded(resp) ==
    Result(Str(BodyText(resp.body)), json_loads(BodyText(resp.body)), resp.status)

\* lines 342-346
JobFailureResult(resp) == Result(Str(BodyText(resp.body)), None, resp.status)

\* Mutant: response_text carries the raw text instead of the decoded payload.
SuccessResult_RawText(output, resp) == Result(Str(BodyText(resp.body)), output, resp.status)

\* lines 351-355
SuccessResult(output, resp) == Result(output, output, resp.status)

\* lines 357-361
ConnectionTimeoutResult(resp) == Result(Str("Connection Timeout"), None, resp.status)


(***************************************************************************)
(* Initial states: the call, with its arguments                            *)
(***************************************************************************)
InitApiCall ==
    /\ entry = "api_call_async"
    /\ pc = "start"
    /\ session = "unopened"
    /\ params \in ParamChoices
    /\ filepaths \in SeqsUpTo(Paths, MaxFiles)
    /\ response = None
    /\ initial_delay = DefaultInitialDelay
    /\ max_attempts = DefaultMaxAttempts
    /\ max_backoff = DefaultMaxBackoff
    /\ events = << >>

InitPollCall ==
    /\ entry = "_poll_response_async"
    /\ pc = "poll_start"
    /\ session = "open"
    /\ params = << >>
    /\ filepaths = << >>
    /\ response \in Responses
    /\ initial_delay \in 0..MaxInitialDelay
    /\ max_attempts \in 0..MaxAttemptsBound
    /\ max_backoff \in 0..MaxBackoffBound
    /\ events = <<Ev("response", response.status)>>

Init ==
    /\ InitApiCall \/ InitPollCall
    /\ idx = 1
    /\ asset_id = None
    /\ asset_names = << >>
    /\ request = None
    /\ attempt = 0
    /\ delay = 0
    /\ outcome = NoOutcome
    /\ uploaded = {}
    /\ readlog = "none"

(***************************************************************************)
(* Leaving the called function                                             *)
(***************************************************************************)
\* api_call_async leaves through the exit of "async with ClientSession".
Finish(o) ==
    /\ outcome' = o
    /\ pc' = IF entry = "api_call_async" THEN "release" ELSE "done"

\* Mutant: an exception leaves without closing the session.
Raise_NoRelease(type) == outcome' = Exc(type) /\ pc' = "done"

Raise(type) == Finish(Exc(type))

(***************************************************************************)
(* api_call_async, lines 323-333, and _prepare_local_asset_async           *)
(***************************************************************************)
\* lines 323-325
OpenSession ==
    /\ pc = "start"
    /\ session' = "open"
    /\ asset_names' = << >>
    /\ idx' = 1
    /\ pc' = "for_filepaths"
    /\ UNCHANGED <<entry, params, filepaths, asset_id, request, response, initial_delay,
                   max_attempts, max_backoff, attempt, delay, outcome, events, uploaded,
                   readlog>>

\* Mutant: the loop over filepaths stops one file early.
ForFilepaths_SkipsLast ==
    /\ pc = "for_filepaths"
    /\ IF idx >= Len(filepaths)
       THEN pc' = "format_request" /\ outcome' = outcome
       ELSE IF PathNotFound(filepaths[idx])
            THEN Raise("FileNotFoundError")
            ELSE pc' = "create_asset" /\ outcome' = outcome
    /\ UNCHANGED <<entry, session, params, filepaths, idx, asset_id, asset_names, request,
                   response, initial_delay, max_attempts, max_backoff, attempt, delay,
                   events, uploaded, readlog>>

\* Mutant: every path is checked before the first file is prepared.
ForFilepaths_Eager ==
    /\ pc = "for_filepaths"
    /\ IF idx > Len(filepaths)
       THEN pc' = "format_request" /\ outcome' = outcome
       ELSE IF \E k \in idx..Len(filepaths) : PathNotFound(filepaths[k])
            THEN Raise("FileNotFoundError")
            ELSE pc' = "create_asset" /\ outcome' = outcome
    /\ UNCHANGED <<entry, session, params, filepaths, idx, asset_id, asset_names, request,
                   response, initial_delay, max_attempts, max_backoff, attempt, delay,
                   events, uploaded, readlog>>

\* line 326 and, for the next file, lines 154-158
ForFilepaths ==
    /\ pc = "for_filepaths"
    /\ IF idx > Len(filepaths)
       THEN pc' = "format_request" /\ outcome' = outcome
       ELSE IF PathNotFound(filepaths[idx])
            THEN Raise("FileNotFoundError")
            ELSE pc' = "create_asset" /\ outcome' = outcome
    /\ UNCHANGED <<entry, session, params, filepaths, idx, asset_id, asset_names, request,
                   response, initial_delay, max_attempts, max_backoff, attempt, delay,
                   events, uploaded, readlog>>

\* lines 160-169 (_create_asset_async, lines 98-103)
CreateAsset ==
    /\ pc = "create_asset"
    /\ events' = Append(events, Ev("create", idx))
    /\ \/ Raise("ClientError") /\ asset_id' = asset_id
       \/ Raise("KeyError") /\ asset_id' = asset_id
       \/ \E id \in AssetIds :
            /\ asset_id' = id
            /\ pc' = "upload_asset"
            /\ outcome' = outcome
    /\ UNCHANGED <<entry, session, params, filepaths, idx, asset_names, request, response,
                   initial_delay, max_attempts, max_backoff, attempt, delay, uploaded,
                   readlog>>

\* lines 170-181 (_upload_asset_async, lines 125-131) and the append of line 327
UploadAsset ==
    /\ pc = "upload_asset"
    /\ events' = Append(events, Ev("put", idx))
    /\ \/ Raise("ClientError") /\ UNCHANGED <<asset_names, idx, uploaded>>
       \/ \E status \in UploadStatuses :
            /\ asset_names' = Append(asset_names, PrepareResult(status, asset_id))
            /\ uploaded' = IF status = 200 THEN uploaded \cup {asset_id} ELSE uploaded
            /\ idx' = idx + 1
            /\ pc' = "for_filepaths"
            /\ outcome' = outcome
    /\ UNCHANGED <<entry, session, params, filepaths, asset_id, request, response,
                   initial_delay, max_attempts, max_backoff, attempt, delay, readlog>>

\* lines 336-337
FormatRequest ==
    /\ pc = "format_request"
    /\ LET r == _format_request(_generate_command("vis_control", params), Token, asset_names)
       IN  IF r = TypeError
           THEN Raise("TypeError") /\ request' = request
           ELSE request' = r /\ pc' = "submit" /\ outcome' = outcome
    /\ UNCHANGED <<entry, session, params, filepaths, idx, asset_id, asset_names, response,
                   initial_delay, max_attempts, max_backoff, attempt, delay, events,
                   uploaded, readlog>>

\* line 338: the job-submission POST; the response is held with its body unread
Submit ==
    /\ pc = "submit"
    /\ \/ /\ events' = Append(events, Ev("post", request))
          /\ Raise("ClientError")
          /\ response' = response
       \/ \E r \in Responses :
            /\ events' = events \o <<Ev("post", request), Ev("response", r.status)>>
            /\ response' = r
            /\ pc' = "poll_start"
            /\ outcome' = outcome
    /\ UNCHANGED <<entry, session, params, filepaths, idx, asset_id, asset_names, request,
                   initial_delay, max_attempts, max_backoff, attempt, delay, uploaded,
                   readlog>>


(***************************************************************************)
(* _poll_response_async                                                    *)
(***************************************************************************)
\* lines 212-213
PollStart ==
    /\ pc = "poll_start"
    /\ attempt' = 0
    /\ delay' = initial_delay
    /\ pc' = "poll_while"
    /\ UNCHANGED <<entry, session, params, filepaths, idx, asset_id, asset_names, request,
                   response, initial_delay, max_attempts, max_backoff, outcome, events,
                   uploaded, readlog>>

\* line 215
PollWhile ==
    /\ pc = "poll_while"
    /\ pc' = IF LoopCondition(response.status, attempt, max_attempts)
             THEN "poll_request" ELSE "poll_exit"
    /\ UNCHANGED <<entry, session, params, filepaths, idx, asset_id, asset_names, request,
                   response, initial_delay, max_attempts, max_backoff, attempt, delay,
                   outcome, events, uploaded, readlog>>

\* Mutant: the poll's response is not bound to the variable the code returns.
PollAnswered_NotRebound(r) ==
    /\ response' = response
    /\ outcome' = outcome
    /\ IF r.status # 202
       THEN pc' = "poll_exit" /\ attempt' = attempt
       ELSE pc' = "poll_backoff" /\ attempt' = attempt + 1

\* lines 221-226: the status GET was answered by r, whose body line 222 reads
PollAnswered(r) ==
    /\ response' = [r EXCEPT !.body_read = TRUE]
    /\ outcome' = outcome
    /\ IF r.status # 202
       THEN pc' = "poll_exit" /\ attempt' = attempt
       ELSE pc' = "poll_backoff" /\ attempt' = attempt + 1

\* Mutant: a failed status GET counts as one more pending answer and is retried.
PollFailed_Retried ==
    /\ pc' = "poll_backoff"
    /\ attempt' = attempt + 1
    /\ outcome' = outcome
    /\ response' = response

\* lines 232-234: the status GET failed at network level; the error is logged
\* and raised again
PollFailed ==
    /\ Raise("ClientError")
    /\ UNCHANGED <<response, attempt>>

\* lines 216-226 and 232-234: response.json(), the request id, the status GET
PollRequest ==
    /\ pc = "poll_request"
    /\ \/ \* line 217 reads a body not read yet, and the read fails
          /\ ~response.body_read
          /\ \E rd \in ReadOutcomes \ {"ok"} : readlog' = rd /\ Raise(rd)
          /\ UNCHANGED <<response, attempt, events>>
       \/ \* the body is at hand
          /\ readlog' = IF response.body_read THEN readlog ELSE "ok"
          /\ IF response.content_type # "application/json"
             THEN Raise("ContentTypeError") /\ UNCHANGED <<response, attempt, events>>
             ELSE IF json_loads(BodyText(response.body)) = JSONDecodeError
             THEN Raise("JSONDecodeError") /\ UNCHANGED <<response, attempt, events>>
             ELSE IF "reqId" \notin DOMAIN json_loads(BodyText(response.body))
             THEN Raise("KeyError") /\ UNCHANGED <<response, attempt, events>>
             ELSE LET request_id == json_loads(BodyText(response.body)).reqId
                  IN  \/ /\ events' = Append(events, Ev("get", request_id))
                         /\ PollFailed
                      \/ \E r \in Responses :
                           /\ events' = events \o
                                  <<Ev("get", request_id), Ev("response", r.status)>>
                           /\ PollAnswered(r)
    /\ UNCHANGED <<entry, session, params, filepaths, idx, asset_id, asset_names, request,
                   initial_delay, max_attempts, max_backoff, delay, uploaded>>

\* lines 227-230
PollBackoff ==
    /\ pc = "poll_backoff"
    /\ IF SleepsAgain(attempt, max_attempts)
       THEN /\ delay' = BackoffDelay(delay, max_backoff)
            /\ events' = Append(events, Ev("sleep", delay'))
       ELSE UNCHANGED <<delay, events>>
    /\ pc' = "poll_while"
    /\ UNCHANGED <<entry, session, params, filepaths, idx, asset_id, asset_names, request,
                   response, initial_delay, max_attempts, max_backoff, attempt, outcome,
                   uploaded, readlog>>

\* lines 236-240
PollExit ==
    /\ pc = "poll_exit"
    /\ IF AttemptsExhausted(attempt, max_attempts)
       THEN Raise("TimeoutError")
       ELSE IF entry = "api_call_async"
            THEN pc' = "check_status" /\ outcome' = outcome
            ELSE Finish(Returned(response))
    /\ UNCHANGED <<entry, session, params, filepaths, idx, asset_id, asset_names, request,
                   response, initial_delay, max_attempts, max_backoff, attempt, delay,
                   events, uploaded, readlog>>

(***************************************************************************)
(* api_call_async, lines 339-361                                           *)
(***************************************************************************)
\* lines 340-346
CheckStatus ==
    /\ pc = "check_status"
    /\ IF response.status # 200
       THEN IF response.body_read
            THEN Finish(JobFailureResult(response)) /\ UNCHANGED <<response, readlog>>
            ELSE \E rd \in ReadOutcomes :
                   /\ readlog' = rd
                   /\ IF rd = "ok"
                      THEN /\ Finish(JobFailureResult(response))
                           /\ response' = [response EXCEPT !.body_read = TRUE]
                      ELSE Raise(rd) /\ response' = response
       ELSE pc' = "process_response" /\ UNCHANGED <<outcome, response, readlog>>
    /\ UNCHANGED <<entry, session, params, filepaths, idx, asset_id, asset_names, request,
                   initial_delay, max_attempts, max_backoff, attempt, delay, events,
                   uploaded>>

\* lines 350-355 once the body is at hand
Decoded ==
    LET output == process_response(response)
    IN  IF output \in DecodeErrors
        THEN Raise(output.tag)
        ELSE Finish(SuccessResult(output, response))

\* lines 349-361 (process_response, lines 256-270)
ProcessResponse ==
    /\ pc = "process_response"
    /\ IF response.body_read \/ ~DecoderReadsBody(response)
       THEN Decoded /\ UNCHANGED <<response, readlog>>
       ELSE \E rd \in ReadOutcomes :
              /\ readlog' = rd
              /\ IF rd = "ok"
                 THEN Decoded /\ response' = [response EXCEPT !.body_read = TRUE]
                 ELSE IF rd = "ConnectionTimeoutError"
                 THEN Finish(ConnectionTimeoutResult(response)) /\ response' = response
                 ELSE Raise(rd) /\ response' = response
    /\ UNCHANGED <<entry, session, params, filepaths, idx, asset_id, asset_names, request,
                   initial_delay, max_attempts, max_backoff, attempt, delay, events,
                   uploaded>>

\* line 324: leaving "async with" closes the session, on a return and on an exception
ReleaseSession ==
    /\ pc = "release"
    /\ session' = "closed"
    /\ pc' = "done"
    /\ UNCHANGED <<entry, params, filepaths, idx, asset_id, asset_names, request, response,
                   initial_delay, max_attempts, max_backoff, attempt, delay, outcome,
                   events, uploaded, readlog>>

Next ==
    \/ OpenSession
    \/ ForFilepaths
    \/ CreateAsset
    \/ UploadAsset
    \/ FormatRequest
    \/ Submit
    \/ PollStart
    \/ PollWhile
    \/ PollRequest
    \/ PollBackoff
    \/ PollExit
    \/ CheckStatus
    \/ ProcessResponse
    \/ ReleaseSession

Spec == Init /\ [][Next]_vars


(***************************************************************************)
(* A direct call of _unpack_zip_response_async(response)                   *)
(***************************************************************************)
InitZip ==
    /\ entry = "_unpack_zip_response_async"
    /\ pc = "unpack"
    /\ session = "open"
    /\ params = << >>
    /\ filepaths = << >>
    /\ \E body \in {ZipBody(z) : z \in SeqsUpTo(ZipEntryChoices, MaxZipEntries)}
                   \cup {NotAZip} :
         response = Response(200, "application/zip", body)
    /\ initial_delay = DefaultInitialDelay
    /\ max_attempts = DefaultMaxAttempts
    /\ max_backoff = DefaultMaxBackoff
    /\ events = << >>
    /\ idx = 1
    /\ asset_id = None
    /\ asset_names = << >>
    /\ request = None
    /\ attempt = 0
    /\ delay = 0
    /\ outcome = NoOutcome
    /\ uploaded = {}
    /\ readlog = "none"

\* lines 285-303
UnpackZip ==
    /\ pc = "unpack"
    /\ response' = [response EXCEPT !.body_read = TRUE]
    /\ readlog' = "ok"
    /\ LET output == _unpack_zip_response_async(response.body)
       IN  outcome' = IF output \in DecodeErrors THEN Exc(output.tag) ELSE Returned(output)
    /\ pc' = "done"
    /\ UNCHANGED <<entry, session, params, filepaths, idx, asset_id, asset_names, request,
                   initial_delay, max_attempts, max_backoff, attempt, delay, events,
                   uploaded>>

NextZip == UnpackZip

SpecZip == InitZip /\ [][NextZip]_vars

(***************************************************************************)
(* Reading the history                                                     *)
(***************************************************************************)
GetIdx == {i \in DOMAIN events : events[i].kind = "get"}
RespIdx == {i \in DOMAIN events : events[i].kind = "response"}
SleepIdx == {i \in DOMAIN events : events[i].kind = "sleep"}
PostIdx == {i \in DOMAIN events : events[i].kind = "post"}

NumGets == Cardinality(GetIdx)

\* Position in events of the k-th status GET.
GetPos(k) == CHOOSE i \in GetIdx : Cardinality({j \in GetIdx : j <= i}) = k

\* Responses to status GETs (the first response is the submission's).
PollRespIdx == {i \in RespIdx : i > 1 /\ events[i - 1].kind = "get"}

\* Status of the last response observed.
LastObserved ==
    events[CHOOSE i \in RespIdx : \A j \in RespIdx : j <= i].arg

ApiDone == entry = "api_call_async" /\ pc = "done"

(***************************************************************************)
(* C1. One run of _poll_response_async issues at most max_attempts status  *)
(* GETs, and none once a response with a status other than 202 was seen.   *)
(***************************************************************************)
C1_PollBudget ==
    /\ NumGets <= max_attempts
    /\ \A i \in GetIdx : \A j \in RespIdx : j < i => events[j].arg = 202

\* The whole budget was spent and the last poll brought a terminal status.
C1_Witness ==
    /\ pc = "done"
    /\ max_attempts >= 2
    /\ NumGets = max_attempts
    /\ events[Len(events)].kind = "response"
    /\ events[Len(events)].arg # 202

(***************************************************************************)
(* C2. When the m-th poll (1 <= m <= max_attempts) brings the first        *)
(* response that is not 202, the loop ends with that response after        *)
(* exactly m polls: nothing is slept or requested after it, TimeoutError   *)
(* is not raised, _poll_response_async returns it, and api_call_async      *)
(* turns a 200 with a JSON body into Result(status_code 200, output the    *)
(* parsed JSON).                                                           *)
(***************************************************************************)
C2_FirstTerminalPollEndsLoop ==
    \A i \in PollRespIdx :
        events[i].arg # 202 =>
            /\ i = Len(events)
            /\ NumGets = attempt + 1
            /\ NumGets <= max_attempts
            /\ response.status = events[i].arg
            /\ pc \in {"poll_exit", "check_status", "process_response", "release", "done"}
            /\ outcome # Exc("TimeoutError")
            /\ (entry = "_poll_response_async" /\ pc = "done") => outcome = Returned(response)
            /\ ( /\ ApiDone
                 /\ response.status = 200
                 /\ response.content_type = "application/json"
                 /\ BodyText(response.body) = "{\"ok\":true}" )
               => /\ outcome.kind = "Result"
                  /\ outcome.status_code = 200
                  /\ outcome.output = [tag |-> "dict", ok |-> TRUE]

\* The last poll the budget allows (m = max_attempts) brought 200 with JSON.
C2_Witness ==
    /\ ApiDone
    /\ NumGets = max_attempts
    /\ events[Len(events)] = Ev("response", 200)
    /\ outcome.kind = "Result"
    /\ outcome.output = [tag |-> "dict", ok |-> TRUE]

(***************************************************************************)
(* C3. When the submission and each of max_attempts >= 1 polls answer 202, *)
(* TimeoutError is raised after exactly max_attempts polls, with no sleep  *)
(* and no poll after the last one, and api_call_async lets it through      *)
(* instead of returning a Result.                                          *)
(***************************************************************************)
C3_AllPendingTimesOut ==
    ( /\ max_attempts >= 1
      /\ \A i \in RespIdx : events[i].arg = 202
      /\ Cardinality(PollRespIdx) = max_attempts )
    => /\ NumGets = max_attempts
       /\ events[Len(events)].kind = "response"
       /\ Cardinality(SleepIdx) = max_attempts - 1
       /\ pc \in {"poll_backoff", "poll_while", "poll_exit", "release", "done"}
       /\ pc \in {"release", "done"} => outcome = Exc("TimeoutError")

\* api_call_async ended in TimeoutError after the ten polls of its budget.
C3_Witness ==
    /\ ApiDone
    /\ NumGets = max_attempts
    /\ \A i \in RespIdx : events[i].arg = 202
    /\ outcome = Exc("TimeoutError")

(***************************************************************************)
(* C4. The delay slept immediately before poll k.                          *)
(***************************************************************************)
\* 0 when nothing is slept between the event before poll k and poll k.
DelaySleptBefore(k) ==
    LET p == GetPos(k)
    IN  IF p > 1 /\ events[p - 1].kind = "sleep" THEN events[p - 1].arg ELSE 0

C5_StatusIsLastObserved ==
    outcome.kind = "Result" => outcome.status_code = LastObserved

\* A Result after polling, whose status is not the submission's 202.
C5_Witness ==
    /\ ApiDone
    /\ outcome.kind = "Result"
    /\ NumGets >= 2
    /\ outcome.status_code = 404

(***************************************************************************)
(* C6. A terminal response with a status other than 200.                   *)
(***************************************************************************)
TerminalNon200 == ApiDone /\ RespIdx # {} /\ LastObserved \notin {200, 202}

RawTextResult == Result(Str(BodyText(response.body)), None, LastObserved)

\* C6 as stated: api_call_async raises nothing and returns
\* Result(raw body text, None, that status).
C6_AsStated == TerminalNon200 => outcome = RawTextResult

\* C6 as amended: it returns Result(raw body text, None, that status)
\* without decoding whenever the body text can be read, which is always so
\* for a polled response (the poll has read its body); when the submission
\* response itself is terminal and reading its body fails at network level,
\* that error propagates.
C6_JobFailureIsData ==
    TerminalNon200 =>
        \/ readlog = "ok" /\ outcome = RawTextResult
        \/ /\ NumGets = 0
           /\ readlog \in {"ClientError", "ConnectionTimeoutError"}
           /\ outcome = Exc(readlog)

\* A polled 404 whose body is JSON, returned undecoded.
C6_Witness ==
    /\ TerminalNon200
    /\ NumGets >= 1
    /\ LastObserved = 404
    /\ outcome.kind = "Result"
    /\ outcome.output = None


(***************************************************************************)
(* C7. A Result with status_code 200 has one of two shapes: the decoded    *)
(* payload as output and as response_text, or, after a connection timeout  *)
(* while the body was read, ("Connection Timeout", None).                  *)
(***************************************************************************)
C7_ResultShapesFor200 ==
    (outcome.kind = "Result" /\ outcome.status_code = 200) =>
        \/ /\ readlog # "ConnectionTimeoutError"
           /\ process_response(response) \notin DecodeErrors
           /\ outcome.output = process_response(response)
           /\ outcome.response_text = outcome.output
        \/ /\ readlog = "ConnectionTimeoutError"
           /\ outcome.response_text = Str("Connection Timeout")
           /\ outcome.output = None

\* The submission answered 200 and reading its body timed out.
C7_Witness ==
    /\ ApiDone
    /\ readlog = "ConnectionTimeoutError"
    /\ outcome = Result(Str("Connection Timeout"), None, 200)

(***************************************************************************)
(* C8. A failed upload (PUT answered with a status other than 200) does    *)
(* not abort api_call_async: once every file went through create and       *)
(* upload, the request is built and submitted, and the invocation does not *)
(* end in an exception that the failed upload caused.                      *)
(***************************************************************************)
SomeUploadFailed == \E i \in 1..Len(asset_names) : asset_names[i] = None

C8_FailedUploadTolerated ==
    (ApiDone /\ SomeUploadFailed /\ Len(asset_names) = Len(filepaths)) =>
        /\ PostIdx # {}
        /\ outcome # Exc("TypeError")

(***************************************************************************)
(* C9. Every asset identifier in a request handed to the job-submission    *)
(* POST, in the body entries and in the asset-reference header, is the     *)
(* assetId of a create-asset call of this invocation whose upload answered *)
(* 200; None is never among them.                                          *)
(***************************************************************************)
RefsHeader == "NVCF-INPUT-ASSET-REFERENCES"

C9_SubmittedIdsWereUploaded ==
    \A i \in PostIdx :
        LET inputs == events[i].arg.body.inputs
            headers == events[i].arg.headers
        IN  /\ \A j \in 2..Len(inputs) :
                 /\ inputs[j].data[1].tag = "str"
                 /\ inputs[j].data[1] \in uploaded
            /\ RefsHeader \in DOMAIN headers =>
                 \A j \in 1..Len(headers[RefsHeader]) :
                     j % 2 = 1 => Str(headers[RefsHeader][j]) \in uploaded

\* A request naming two uploaded assets was submitted.
C9_Witness ==
    \E i \in PostIdx :
        /\ Len(events[i].arg.body.inputs) = 3
        /\ Len(events[i].arg.headers[RefsHeader]) = 3

(***************************************************************************)
(* C10. _prepare_local_asset_async, called with an empty path or a path    *)
(* that does not exist, raises FileNotFoundError and issues no request:    *)
(* no create-asset POST and no upload PUT belongs to that call.            *)
(***************************************************************************)
BadPath(filepath) == filepath = "" \/ filepath \notin {"a.png", "b.png"}

C10_NotFoundBeforeNetwork ==
    /\ \A i \in DOMAIN events :
          events[i].kind \in {"create", "put"} => ~BadPath(filepaths[events[i].arg])
    /\ ( /\ entry = "api_call_async"
         /\ pc \notin {"start", "for_filepaths"}
         /\ idx <= Len(filepaths)
         /\ BadPath(filepaths[idx]) )
       => /\ outcome = Exc("FileNotFoundError")
          /\ \A i \in DOMAIN events :
                events[i].kind \in {"create", "put"} => events[i].arg # idx

\* The second path does not exist: the first file's two requests were issued,
\* none for the second.
C10_Witness ==
    /\ ApiDone
    /\ outcome = Exc("FileNotFoundError")
    /\ idx = 2
    /\ filepaths[2] = "missing.png"
    /\ Len(events) = 2


(***************************************************************************)
(* C11. The requests of one invocation are totally ordered: each file's    *)
(* create-asset POST is followed by its upload PUT, the files go in list   *)
(* order, the job-submission POST comes after the pairs of all files, the  *)
(* first poll after the submission response, poll k+1 after the response   *)
(* to poll k; a request is answered before anything else happens, so no    *)
(* two requests are in flight together.                                    *)
(***************************************************************************)
C11_RequestsInOrder ==
    \A p \in DOMAIN events :
        LET e == events[p]
        IN  /\ e.kind = "create" =>
                 /\ p % 2 = 1
                 /\ e.arg = (p + 1) \div 2
                 /\ p > 1 => events[p - 1].kind = "put"
            /\ e.kind = "put" =>
                 /\ p % 2 = 0
                 /\ events[p - 1].kind = "create"
                 /\ events[p - 1].arg = e.arg
            /\ e.kind = "post" =>
                 /\ p = 2 * Len(filepaths) + 1
                 /\ \A q \in 1..(p - 1) : events[q].kind \in {"create", "put"}
            /\ e.kind = "response" =>
                 \/ p = 1 /\ entry = "_poll_response_async"
                 \/ p > 1 /\ events[p - 1].kind \in {"post", "get"}
            /\ e.kind = "get" =>
                 /\ p > 1
                 /\ events[p - 1].kind \in {"response", "sleep"}
                 /\ \E q \in 1..(p - 1) : events[q].kind = "response"
            /\ e.kind = "sleep" => p > 1 /\ events[p - 1].kind = "response"
            /\ (e.kind \in {"post", "get"} /\ p < Len(events)) =>
                 events[p + 1].kind = "response"
            /\ (e.kind = "create" /\ p < Len(events)) => events[p + 1].kind = "put"

\* Two files, the submission and at least two polls, ending in a Result.
C11_Witness ==
    /\ ApiDone
    /\ Len(filepaths) = 2
    /\ NumGets >= 2
    /\ Cardinality(SleepIdx) >= 1
    /\ outcome.kind = "Result"


(***************************************************************************)
(* C12. An invocation of api_call_async acquires one session before its    *)
(* first request and releases it on every way out (a Result, any           *)
(* exception): no request is issued before the session is open or after    *)
(* it is closed, and a closed session is not opened again.                 *)
(***************************************************************************)
SessionScoped ==
    entry = "api_call_async" =>
        /\ session = "unopened" => events = << >> /\ pc = "start"
        /\ session = "closed" <=> pc = "done"
        /\ pc = "done" => outcome.kind \in {"Result", "exception"}
        /\ outcome.kind \in {"Result", "exception"} => pc \in {"release", "done"}

SessionStep ==
    entry = "api_call_async" =>
        /\ session # "unopened" => session' # "unopened"
        /\ session = "closed" => session' = "closed" /\ events' = events
        /\ pc = "release" => events' = events /\ outcome' = outcome

C12_SessionAcquiredAndReleased == [](SessionScoped) /\ [][SessionStep]_vars

\* A decode error left api_call_async and the session is closed.
C12_Witness ==
    /\ ApiDone
    /\ session = "closed"
    /\ outcome = Exc("JSONDecodeError")
    /\ NumGets >= 1


(***************************************************************************)
(* C13. A status GET that fails at network level ends _poll_response_async *)
(* with that transport error at once: no poll and no sleep follows, the    *)
(* failed poll does not count as an attempt, and neither TimeoutError nor  *)
(* a Result takes the error's place.                                       *)
(***************************************************************************)
\* A status GET that got no response.
FailedGetIdx ==
    {i \in GetIdx : i = Len(events) \/ events[i + 1].kind # "response"}

C13_PollTransportErrorPropagates ==
    \A i \in FailedGetIdx :
        /\ i = Len(events)
        /\ outcome = Exc("ClientError")
        /\ pc \in {"release", "done"}
        /\ attempt = NumGets - 1
        /\ attempt = Cardinality(PollRespIdx)

\* The third status GET failed after two pending answers and two sleeps.
C13_Witness ==
    /\ pc = "done"
    /\ FailedGetIdx # {}
    /\ NumGets = 3
    /\ Cardinality(SleepIdx) = 2
    /\ outcome = Exc("ClientError")


(***************************************************************************)
(* C14. process_response looks at the declared content type only:          *)
(* application/json gives the parsed JSON body, application/zip the        *)
(* unpacked mapping, anything else raises the unsupported-format error     *)
(* (ValueError), whatever the body holds; api_call_async lets that error   *)
(* through for a 200 terminal response and returns no Result.              *)
(***************************************************************************)
Terminal200 == ApiDone /\ RespIdx # {} /\ LastObserved = 200

C14_DispatchOnContentType ==
    Terminal200 =>
        /\ response.content_type \notin {"application/json", "application/zip"} =>
               outcome = Exc("ValueError")
        /\ (response.content_type = "application/json" /\ response.body_read) =>
               IF json_loads(BodyText(response.body)) = JSONDecodeError
               THEN outcome = Exc("JSONDecodeError")
               ELSE /\ outcome.kind = "Result"
                    /\ outcome.output = json_loads(BodyText(response.body))
        /\ (response.content_type = "application/zip" /\ response.body_read) =>
               IF IsZip(response.body)
               THEN /\ outcome.kind = "Result"
                    /\ outcome.output = UnpackEntries(response.body.entries, EmptyDict)
               ELSE outcome = Exc("AssertionError")

\* A polled 200 declared text/plain whose body is valid JSON: ValueError.
C14_Witness ==
    /\ Terminal200
    /\ NumGets >= 1
    /\ response.content_type = "text/plain"
    /\ BodyText(response.body) = "{\"ok\":true}"
    /\ outcome = Exc("ValueError")


(***************************************************************************)
(* C15. What _unpack_zip_response_async makes of a well-formed archive.    *)
(***************************************************************************)
ZipDone ==
    entry = "_unpack_zip_response_async" /\ pc = "done" /\ IsZip(response.body)

ZipEntries == response.body.entries

Recognised(e) == e.ext \in {".json", ".png", ".mp4"}

KeyOf(e) ==
    IF e.ext = ".json" THEN e.stem ELSE IF e.ext = ".png" THEN "image" ELSE "video"

ValueOf(e) ==
    IF e.ext = ".json" THEN json_loads(e.data) ELSE [tag |-> "bytes", val |-> e.data]

AllJsonParse ==
    \A i \in 1..Len(ZipEntries) :
        ZipEntries[i].ext = ".json" => json_loads(ZipEntries[i].data) # JSONDecodeError

ExpectedKeys == {KeyOf(ZipEntries[i]) : i \in {j \in 1..Len(ZipEntries) : Recognised(ZipEntries[j])}}

MaxOf(S) == CHOOSE i \in S : \A j \in S : j <= i

LastWithExt(ext) == MaxOf({i \in 1..Len(ZipEntries) : ZipEntries[i].ext = ext})

LastWithKey(k) ==
    MaxOf({i \in 1..Len(ZipEntries) : Recognised(ZipEntries[i]) /\ KeyOf(ZipEntries[i]) = k})

\* C15 as stated: every .json entry is stored under its basename without
\* extension, image holds the bytes of the last .png entry, video those of
\* the last .mp4 entry, and nothing else is a key.
C15_AsStated ==
    (ZipDone /\ AllJsonParse) =>
        /\ outcome.kind = "return"
        /\ DOMAIN outcome.value = ExpectedKeys
        /\ \A i \in 1..Len(ZipEntries) :
              ZipEntries[i].ext = ".json" =>
                  outcome.value[ZipEntries[i].stem] = json_loads(ZipEntries[i].data)
        /\ (\E i \in 1..Len(ZipEntries) : ZipEntries[i].ext = ".png") =>
              outcome.value["image"] = ValueOf(ZipEntries[LastWithExt(".png")])
        /\ (\E i \in 1..Len(ZipEntries) : ZipEntries[i].ext = ".mp4") =>
              outcome.value["video"] = ValueOf(ZipEntries[LastWithExt(".mp4")])

\* C15 as amended: the keys are the basenames without extension of the
\* .json entries, image if there is a .png entry and video if there is an
\* .mp4 entry; each key holds the value of the last entry in archive order
\* that maps to it; a .json entry that does not parse makes the call raise;
\* a.json, image.png, video.mp4 decode to exactly a, image, video.
C15_LastEntryPerKeyWins ==
    ZipDone =>
        IF ~AllJsonParse
        THEN outcome = Exc("JSONDecodeError")
        ELSE /\ outcome.kind = "return"
             /\ DOMAIN outcome.value = ExpectedKeys
             /\ \A k \in ExpectedKeys :
                   outcome.value[k] = ValueOf(ZipEntries[LastWithKey(k)])
             /\ ZipEntries = << ZipEntry("", "a", ".json", "{\"x\":1}"),
                                ZipEntry("", "image", ".png", "png-bytes-1"),
                                ZipEntry("", "video", ".mp4", "mp4-bytes-1") >>
                => outcome.value =
                     [a |-> [tag |-> "dict", x |-> 1],
                      image |-> [tag |-> "bytes", val |-> "png-bytes-1"],
                      video |-> [tag |-> "bytes", val |-> "mp4-bytes-1"]]

\* Two .png entries and a .json entry: image holds the second .png.
C15_Witness ==
    /\ ZipDone
    /\ Len(ZipEntries) = 3
    /\ ZipEntries[1].ext = ".png"
    /\ ZipEntries[2].ext = ".png"
    /\ ZipEntries[1] # ZipEntries[2]
    /\ ZipEntries[3].ext = ".json"
    /\ outcome.kind = "return"
    /\ DOMAIN outcome.value = {"a", "image"}
    /\ outcome.value["image"] = [tag |-> "bytes", val |-> ZipEntries[2].data]


(***************************************************************************)
(* C16. For a list of n asset identifiers _format_request returns a body   *)
(* of n+1 input entries, the command first and then, in list order, entry  *)
(* i+1 named image_assetId_i with the i-th identifier as data; the         *)
(* asset-reference header is there if and only if n > 0 and holds the      *)
(* identifiers joined by commas in the same order.                         *)
(***************************************************************************)
C16_RequestShape ==
    request.tag = "request" =>
        LET n == Len(asset_names)
            inputs == request.body.inputs
            headers == request.headers
        IN  /\ Len(inputs) = n + 1
            /\ inputs[1].name = <<"command">>
            /\ inputs[1].data = <<_generate_command("vis_control", params)>>
            /\ \A i \in 0..(n - 1) :
                  /\ inputs[i + 2].name = <<"image_assetId_", i>>
                  /\ inputs[i + 2].data = <<asset_names[i + 1]>>
            /\ {"Authorization", "Content-Type", "NVCF-POLL-SECONDS"} \subseteq DOMAIN headers
            /\ (RefsHeader \in DOMAIN headers) <=> (n > 0)
            /\ n > 0 =>
                  /\ Len(headers[RefsHeader]) = 2 * n - 1
                  /\ \A j \in 1..(2 * n - 1) :
                        headers[RefsHeader][j] =
                            IF j % 2 = 1 THEN asset_names[(j + 1) \div 2].val ELSE ","

\* A request built from two different identifiers.
C16_Witness ==
    /\ request.tag = "request"
    /\ Len(asset_names) = 2
    /\ asset_names[1] # asset_names[2]
    /\ request.headers[RefsHeader] = <<asset_names[1].val, ",", asset_names[2].val>>

\* A request built from no identifier has no asset-reference header.
C16_WitnessEmpty ==
    /\ request.tag = "request"
    /\ Len(asset_names) = 0
    /\ RefsHeader \notin DOMAIN request.headers


(***************************************************************************)
(* The sleeps of one run of _poll_response_async                           *)
(***************************************************************************)
NumSleeps == Cardinality(SleepIdx)

\* Position in events of the j-th sleep.
SleepPos(j) == CHOOSE i \in SleepIdx : Cardinality({q \in SleepIdx : q <= i}) = j

Slept(j) == events[SleepPos(j)].arg

RECURSIVE SumSlept(_)
SumSlept(j) == IF j = 0 THEN 0 ELSE Slept(j) + SumSlept(j - 1)

(***************************************************************************)
(* C17. After a poll answered 202 with attempts remaining the engine       *)
(* sleeps for the current delay and doubles it only afterwards: the j-th   *)
(* sleep lasts min(initial_delay * 2^(j-1), max_backoff), so the first     *)
(* lasts initial_delay whenever initial_delay <= max_backoff.              *)
(***************************************************************************)
C17_SleepThenDouble ==
    \A j \in 1..NumSleeps :
        Slept(j) = Min(initial_delay * Pow2(j - 1), max_backoff)

(***************************************************************************)
(* C18. The sleeps of one run add up to at most                            *)
(* initial_delay * (2^max_attempts - 1), and each is at most max_backoff.  *)
(***************************************************************************)
C18_TotalWaitBounded ==
    /\ SumSlept(NumSleeps) <= initial_delay * (Pow2(max_attempts) - 1)
    /\ \A j \in 1..NumSleeps : Slept(j) <= max_backoff

\* Every sleep the budget allows was slept, the last one cut by max_backoff.
C18_Witness ==
    /\ pc = "done"
    /\ max_attempts >= 3
    /\ NumSleeps = max_attempts - 1
    /\ Slept(1) < max_backoff
    /\ Slept(NumSleeps) = max_backoff
    /\ initial_delay * Pow2(NumSleeps) > max_backoff

(***************************************************************************)
(* C19. _poll_response_async raises TimeoutError only if the response      *)
(* observed last has status 202, for every max_attempts >= 0; a response   *)
(* observed last with another status is returned.                          *)
(***************************************************************************)
C19_TimeoutOnlyWhilePending ==
    /\ outcome = Exc("TimeoutError") => LastObserved = 202
    /\ ( /\ entry = "_poll_response_async"
         /\ pc = "done"
         /\ LastObserved # 202
         /\ events[Len(events)].kind = "response" )
       => outcome = Returned(response)


(***************************************************************************)
(* C20. api_call_async checks the paths one at a time: when the path at    *)
(* position k does not exist, FileNotFoundError is raised after the create *)
(* and upload requests of every earlier position, in order, and after      *)
(* nothing else: no request for position k or later and no job-submission  *)
(* POST.                                                                   *)
(***************************************************************************)
C20_PathsCheckedLazily ==
    outcome = Exc("FileNotFoundError") =>
        /\ idx \in 1..Len(filepaths)
        /\ BadPath(filepaths[idx])
        /\ \A k \in 1..(idx - 1) : ~BadPath(filepaths[k])
        /\ Len(events) = 2 * (idx - 1)
        /\ \A k \in 1..(idx - 1) :
              /\ events[2 * k - 1] = Ev("create", k)
              /\ events[2 * k] = Ev("put", k)

\* The first file exists and is created and uploaded, the second path is
\* empty: two requests, then the error.
C20_Witness ==
    /\ outcome = Exc("FileNotFoundError")
    /\ idx = 2
    /\ filepaths[1] = "a.png"
    /\ filepaths[2] = ""
    /\ events = <<Ev("create", 1), Ev("put", 1)>>
    /\ session = "closed"

====
